---- MODULE Spec2Model ----
(***************************************************************************)
(* Model of openedai-vision's prompt compilation (src/vision_qna.py) and   *)
(* of the qwen2_5_vl backend's streaming loop (src/backend/qwen2_5_vl.py). *)
(*                                                                         *)
(* A Python string is a sequence of tokens: a literal of an f-string is    *)
(* one token, a message text is one token, the empty string is <<>>.       *)
(* String concatenation is \o.  Python's None is the value None.           *)
(***************************************************************************)
EXTENDS Integers, Sequences, FiniteSets, TLC

None == "None"

(***************************************************************************)
(* Bounds of the explored requests.                                        *)
(***************************************************************************)
MaxMsgs == 2
MaxParts == 2
MaxTotalParts == 3

Roles == {"system", "user", "assistant"}
Texts == {"hi", " pad "}
Urls == {"u1", "u2"}

\* class Content: a text part carries text, an image part carries image_url
TextPart(t) == [type |-> "text", text |-> t, url |-> None]
ImagePart(u) == [type |-> "image_url", text |-> None, url |-> u]
Content == {TextPart(t) : t \in Texts} \cup {ImagePart(u) : u \in Urls}

\* class Message, with content already a list of Content
Message(r, c) == [role |-> r, content |-> c]

SeqsUpTo(S, n) == UNION {[1..k -> S] : k \in 1..n}

Messages == {Message(r, c) : r \in Roles, c \in SeqsUpTo(Content, MaxParts)}

\* the two requests the specification gives as examples
transparent_pixel_url == "data:image/png;..."
ExampleChatml ==
    << Message("system", <<TextPart("Be terse.")>>),
       Message("user", <<ImagePart(transparent_pixel_url), TextPart("What is this?")>>) >>
ExamplePartial ==
    << Message("user", <<TextPart("hi")>>),
       Message("assistant", <<TextPart("partial")>>) >>

\* a user message with an image reference and several Text parts
ExampleImageTexts ==
    << Message("user", <<ImagePart("u1"), TextPart("hi"), TextPart(" pad ")>>) >>

\* the lists of n messages of S that hold at most budget parts together
RECURSIVE ListsOf(_, _, _, _)
ListsOf(S, Size(_), n, budget) ==
    IF n = 0 THEN {<<>>}
    ELSE UNION { {<<m>> \o rest : rest \in ListsOf(S, Size, n - 1, budget - Size(m))} :
                 m \in {x \in S : Size(x) + (n - 1) <= budget} }

MessageSize(m) == Len(m.content)

MessageLists ==
    UNION {ListsOf(Messages, MessageSize, n, MaxTotalParts) : n \in 1..MaxMsgs}
        \cup {ExampleChatml, ExamplePartial, ExampleImageTexts}

(***************************************************************************)
(* String helpers.                                                         *)
(***************************************************************************)
\* a Python str value as a token sequence
Str(t) == IF t = "" THEN <<>> ELSE <<t>>

\* str.strip()
Strip(t) == IF t = " pad " THEN "pad" ELSE t

RECURSIVE Concat(_)
Concat(ss) == IF ss = <<>> THEN <<>> ELSE Head(ss) \o Concat(Tail(ss))

Front(s) == SubSeq(s, 1, Len(s) - 1)
Last(s) == s[Len(s)]

RECURSIVE Count(_, _)
Count(s, x) ==
    IF s = <<>> THEN 0 ELSE (IF Head(s) = x THEN 1 ELSE 0) + Count(Tail(s), x)

IsText(c) == c.type = "text"
IsImage(c) == c.type = "image_url"

\* url_to_image: the decoded image of a reference
url_to_image(u) == [image |-> u]

\* images.extend([await url_to_image(c.image_url.url)]) over one content list
ContentImages(content) ==
    LET refs == SelectSeq(content, IsImage)
    IN  [i \in 1..Len(refs) |-> url_to_image(refs[i].url)]

\* img_tag += img_tok over one content list
ContentImgTag(content, img_tok) ==
    LET refs == SelectSeq(content, IsImage)
    IN  Concat([i \in 1..Len(refs) |-> Str(img_tok)])

\* text = ''; ... if c.type == 'text': text = c.text  (the last Text part wins)
ContentLastText(content) ==
    LET texts == SelectSeq(content, IsText)
    IN  IF texts = <<>> THEN "" ELSE Last(texts).text

\* for c in m.content: if c.type == 'text': prompt += f"{pre}{c.text}{post}"
PerTextBlocks(content, pre, post) ==
    LET texts == SelectSeq(content, IsText)
    IN  Concat([i \in 1..Len(texts) |-> Str(pre) \o Str(texts[i].text) \o Str(post)])

(***************************************************************************)
(* The result of a call of a format function: how it ended, what it        *)
(* returned, and the caller's message list as the call left it.            *)
(***************************************************************************)
Returned(images, prompt, left) ==
    [status |-> "ok", images |-> images, prompt |-> prompt, messages |-> left,
     error |-> <<>>]
Raised(kind, text, left) ==
    [status |-> kind, images |-> <<>>, prompt |-> <<>>, messages |-> left,
     error |-> text]

\* if messages and messages[-1].role == 'assistant':
HasTrailingAssistant(messages) ==
    messages # <<>> /\ Last(messages).role = "assistant"

\* generation_msg += messages[-1].content[0].text ; messages.pop(-1)
\* The += raises TypeError, before the pop, when content[0] is not a text part.
TrailingText(messages) == Last(messages).content[1].text
TrailingFails(messages) ==
    HasTrailingAssistant(messages) /\ TrailingText(messages) = None
GenerationMsg(messages, tag) ==
    IF HasTrailingAssistant(messages)
    THEN Str(tag) \o Str(TrailingText(messages))
    ELSE Str(tag)
\* mutant: a second trailing assistant message is removed with the last
PopTrailing_both(messages) ==
    IF ~HasTrailingAssistant(messages) THEN messages
    ELSE IF HasTrailingAssistant(Front(messages)) THEN Front(Front(messages))
    ELSE Front(messages)

\* mutant: the trailing message is read and left in the walked list
PopTrailing_keep(messages) == messages

\* messages.pop(-1) acts on the list object the caller passed
PopTrailing(messages) ==
    IF HasTrailingAssistant(messages) THEN Front(messages) ELSE messages

\* the TypeError of str + None, and of None += str
NoneTypeError == <<"can only concatenate str (not NoneType) to str">>
NoneAugError == <<"unsupported operand type(s) for +=: 'NoneType' and 'str'">>

\* the shared shape: extraction, walk over the remaining messages, append
\* Turn(m) is the pair [images, prompt] one message adds
Walk(turns) ==
    [images |-> Concat([i \in 1..Len(turns) |-> turns[i].images]),
     prompt |-> Concat([i \in 1..Len(turns) |-> turns[i].prompt])]

WithExtraction(messages, tag, head, turns) ==
    IF TrailingFails(messages)
    THEN Raised("TypeError", NoneTypeError, messages)
    ELSE Returned(Walk(turns).images,
                  Str(head) \o Walk(turns).prompt \o GenerationMsg(messages, tag),
                  PopTrailing(messages))

(***************************************************************************)
(* The per-message steps the format functions share.                       *)
(***************************************************************************)
NoTurn == [images |-> <<>>, prompt |-> <<>>]

\* role user of the families with one text segment:
\*   prompt += f"{pre}{img_tag}{text}{post}"
UserTurn(m, img_tok, pre, post) ==
    [images |-> ContentImages(m.content),
     prompt |-> Str(pre) \o ContentImgTag(m.content, img_tok)
                  \o Str(ContentLastText(m.content)) \o Str(post)]

\* roles assistant and system: one block per Text part, no image handling
TextTurn(m, pre, post) ==
    [images |-> <<>>, prompt |-> PerTextBlocks(m.content, pre, post)]

\* p = ''; image: p = img_tok + p + img_end; text: p += f"{c.text}\n\n"
RECURSIVE PrependFold(_, _, _, _)
PrependFold(content, p, img_tok, img_end) ==
    IF content = <<>> THEN p
    ELSE LET c == Head(content)
         IN  PrependFold(Tail(content),
                         IF IsImage(c) THEN Str(img_tok) \o p \o Str(img_end)
                                       ELSE p \o Str(c.text) \o <<"\n\n">>,
                         img_tok, img_end)

\* the families that walk every role alike: the images of the message, then
\* one block per Text part, each carrying the whole img_tag
AnyRoleTurn(m, img_tok, pre, mid, post) ==
    LET texts == SelectSeq(m.content, IsText)
        img_tag == ContentImgTag(m.content, img_tok)
    IN  [images |-> ContentImages(m.content),
         prompt |-> Concat([i \in 1..Len(texts) |->
                        Str(pre) \o <<m.role>> \o Str(mid) \o img_tag
                          \o Str(texts[i].text) \o Str(post)])]

(***************************************************************************)
(* The format functions.                                                   *)
(***************************************************************************)
phi15_turn(m) ==
    IF m.role = "user" THEN
        [images |-> ContentImages(m.content),
         prompt |-> PrependFold(m.content, <<>>, "<image>", "")]
    ELSE IF m.role = "assistant" THEN TextTurn(m, "Answer: ", "\n\n")
    ELSE IF m.role = "system" THEN TextTurn(m, "", "\n\n")
    ELSE NoTurn

phi15_prompt_from_messages(messages) ==
    LET rest == PopTrailing(messages)
    IN  WithExtraction(messages, "Answer:", "",
                       [i \in 1..Len(rest) |-> phi15_turn(rest[i])])

vicuna0_turn(m) ==
    IF m.role = "user" THEN UserTurn(m, "<image_placeholder>\n", "### Human: ", "\n")
    ELSE IF m.role = "assistant" THEN TextTurn(m, "### Assistant: ", "\n")
    ELSE IF m.role = "system" THEN TextTurn(m, "", "\n\n")
    ELSE NoTurn

vicuna0_prompt_from_messages(messages) ==
    LET rest == PopTrailing(messages)
    IN  WithExtraction(messages, "### Assistant:", "",
                       [i \in 1..Len(rest) |-> vicuna0_turn(rest[i])])

vicuna_turn(m) ==
    IF m.role = "user" THEN UserTurn(m, "<image>\n", "USER: ", "\n")
    ELSE IF m.role = "assistant" THEN TextTurn(m, "ASSISTANT: ", "\n")
    ELSE IF m.role = "system" THEN TextTurn(m, "", "\n\n")
    ELSE NoTurn

vicuna_prompt_from_messages(messages) ==
    LET rest == PopTrailing(messages)
    IN  WithExtraction(messages, "ASSISTANT:", "",
                       [i \in 1..Len(rest) |-> vicuna_turn(rest[i])])

llama2_turn(m) ==
    IF m.role = "user" THEN UserTurn(m, "<image>\n", "[INST] ", " [/INST]")
    ELSE IF m.role = "assistant" THEN TextTurn(m, " ", "")
    ELSE IF m.role = "system" THEN TextTurn(m, "[INST] <<SYS>>\n", "\n<</SYS>> [/INST]")
    ELSE NoTurn

\* no trailing-assistant extraction: every message is walked
llama2_prompt_from_messages(messages) ==
    LET w == Walk([i \in 1..Len(messages) |-> llama2_turn(messages[i])])
    IN  Returned(w.images, w.prompt, messages)

\* f"<|start_header_id|>{m.role}<|end_header_id|>\n\n{img_tag}{c.text.strip()}<|eot_id|>"
llama3_turn(m) ==
    LET texts == SelectSeq(m.content, IsText)
        img_tag == ContentImgTag(m.content, "<image>")
    IN  [images |-> ContentImages(m.content),
         prompt |-> Concat([i \in 1..Len(texts) |->
                        <<"<|start_header_id|>", m.role, "<|end_header_id|>\n\n">>
                          \o img_tag \o Str(Strip(texts[i].text)) \o <<"<|eot_id|>">>])]

llama3_prompt_from_messages(messages) ==
    LET rest == PopTrailing(messages)
    IN  WithExtraction(messages, "<|start_header_id|>assistant<|end_header_id|>\n\n", "",
                       [i \in 1..Len(rest) |-> llama3_turn(rest[i])])

\* mutant: the image tags follow the text, as pixtral places them
chatml_turn_tags_last(m) ==
    IF m.role = "user" THEN
        [images |-> ContentImages(m.content),
         prompt |-> <<"<|im_start|>user\n">> \o Str(ContentLastText(m.content))
                      \o ContentImgTag(m.content, "<image>\n") \o <<"<|im_end|>">>]
    ELSE IF m.role = "assistant" THEN TextTurn(m, "<|im_start|>assistant\n", "<|im_end|>")
    ELSE IF m.role = "system" THEN TextTurn(m, "<|im_start|>system\n", "<|im_end|>")
    ELSE NoTurn

chatml_turn(m) ==
    IF m.role = "user" THEN UserTurn(m, "<image>\n", "<|im_start|>user\n", "<|im_end|>")
    ELSE IF m.role = "assistant" THEN TextTurn(m, "<|im_start|>assistant\n", "<|im_end|>")
    ELSE IF m.role = "system" THEN TextTurn(m, "<|im_start|>system\n", "<|im_end|>")
    ELSE NoTurn

chatml_prompt_from_messages(messages) ==
    LET rest == PopTrailing(messages)
    IN  WithExtraction(messages, "<|im_start|>assistant\n", "",
                       [i \in 1..Len(rest) |-> chatml_turn(rest[i])])

gemma_turn(m) ==
    IF m.role = "user" THEN UserTurn(m, "<image>\n", "<start_of_turn>user\n", "<end_of_turn>")
    ELSE IF m.role = "assistant" THEN TextTurn(m, "<start_of_turn>model\n", "<end_of_turn>")
    ELSE IF m.role = "system" THEN TextTurn(m, "<start_of_turn>system\n", "<end_of_turn>")
    ELSE NoTurn

gemma_prompt_from_messages(messages) ==
    LET rest == PopTrailing(messages)
    IN  WithExtraction(messages, "<start_of_turn>model\n", "",
                       [i \in 1..Len(rest) |-> gemma_turn(rest[i])])

\* "<0x04>" stands for the character '\\x04' of f"\\x04{c.text}\\n"
fuyu_turn(m) ==
    IF m.role = "user" THEN
        [images |-> ContentImages(m.content),
         prompt |-> PrependFold(m.content, <<>>, "", "")]
    ELSE IF m.role = "assistant" THEN TextTurn(m, "<0x04>", "\n")
    ELSE IF m.role = "system" THEN TextTurn(m, "", "\n\n")
    ELSE NoTurn

\* no trailing-assistant extraction: every message is walked
fuyu_prompt_from_messages(messages) ==
    LET w == Walk([i \in 1..Len(messages) |-> fuyu_turn(messages[i])])
    IN  Returned(w.images, w.prompt, messages)

\* f"<|{m.role}|>\n{img_tag}{c.text}<|end|>\n"
phi3_turn(m) == AnyRoleTurn(m, "<image>\n", "<|", "|>\n", "<|end|>\n")

phi3_prompt_from_messages(messages) ==
    LET rest == PopTrailing(messages)
    IN  WithExtraction(messages, "<|assistant|>\n", "",
                       [i \in 1..Len(rest) |-> phi3_turn(rest[i])])

\* no branch for role system
phintern_turn(m) ==
    IF m.role = "user" THEN UserTurn(m, "<image>\n", "<s><|user|>\n", "<|end|>")
    ELSE IF m.role = "assistant" THEN TextTurn(m, "<s><|assistant|>\n", "<|end|>")
    ELSE NoTurn

phintern_prompt_from_messages(messages) ==
    LET rest == PopTrailing(messages)
    IN  WithExtraction(messages, "<s><|assistant|>\n", "",
                       [i \in 1..Len(rest) |-> phintern_turn(rest[i])])

falcon_turn(m) ==
    IF m.role = "user" THEN UserTurn(m, "<image>\n", "User:", " ")
    ELSE IF m.role = "assistant" THEN TextTurn(m, "Falcon:", "")
    ELSE IF m.role = "system" THEN TextTurn(m, "", "\n\n")
    ELSE NoTurn

falcon_prompt_from_messages(messages) ==
    LET rest == PopTrailing(messages)
    IN  WithExtraction(messages, "Falcon:", "",
                       [i \in 1..Len(rest) |-> falcon_turn(rest[i])])

\* f"<|{m.role}|>{metadata}\n{img_tag}{c.text}", metadata = ''
glm4v_turn(m) ==
    AnyRoleTurn(m, "<|begin_of_image|><|endoftext|><|end_of_image|>", "<|", "|>\n", "")

glm4v_prompt_from_messages(messages) ==
    LET rest == PopTrailing(messages)
    IN  WithExtraction(messages, "<|assistant|>\n", "[gMASK]<sop>",
                       [i \in 1..Len(rest) |-> glm4v_turn(rest[i])])

\* if c.type == 'text' and c.text: prompt = c.text   (the last one stays)
florence_prompt_from_messages(messages) ==
    LET all == Concat([i \in 1..Len(messages) |-> messages[i].content])
        cmds == SelectSeq(all, LAMBDA c : IsText(c) /\ c.text # "")
    IN  Returned(Concat([i \in 1..Len(messages) |-> ContentImages(messages[i].content)]),
                 IF cmds = <<>> THEN <<"<MORE_DETAILED_CAPTION>">> ELSE Str(Last(cmds).text),
                 messages)

\* [INST] {text}{img_tag} [/INST]: the text precedes the image tags
pixtral_turn(m) ==
    IF m.role = "user" THEN
        [images |-> ContentImages(m.content),
         prompt |-> <<"[INST] ">> \o Str(ContentLastText(m.content))
                      \o ContentImgTag(m.content, "[IMG]") \o <<" [/INST]">>]
    ELSE IF m.role = "assistant" THEN TextTurn(m, " ", "")
    ELSE NoTurn

\* if messages and messages[-1].role == 'user':
\*     last_message = messages[-1].content[0].text ; messages.pop(-1)
PopTrailingUser(messages) ==
    IF messages # <<>> /\ Last(messages).role = "user" THEN Front(messages) ELSE messages

\* system_prompt = None ... system_prompt += c.text raises TypeError at the
\* first Text part of a system message
HasSystemText(messages) ==
    \E i \in 1..Len(messages) :
        messages[i].role = "system" /\ SelectSeq(messages[i].content, IsText) # <<>>

\* last_message is built and dropped: "[INST] " + last_message raises TypeError
\* when the popped user message starts with an image part; prompt never
\* receives last_message
pixtral_prompt_from_messages(messages) ==
    LET afterAssistant == PopTrailing(messages)
        rest == PopTrailingUser(afterAssistant)
        last_message == IF rest # afterAssistant
                        THEN Last(afterAssistant).content[1].text ELSE ""
        w == Walk([i \in 1..Len(rest) |-> pixtral_turn(rest[i])])
    IN  IF TrailingFails(messages) THEN Raised("TypeError", NoneTypeError, messages)
        ELSE IF HasSystemText(rest) THEN Raised("TypeError", NoneAugError, rest)
        ELSE IF last_message = None THEN Raised("TypeError", NoneTypeError, rest)
        ELSE Returned(w.images,
                      <<"<s>">> \o w.prompt \o Str(IF HasTrailingAssistant(messages)
                                                    THEN TrailingText(messages) ELSE ""),
                      rest)

(***************************************************************************)
(* prompt_from_messages: the registry and the dispatch.                    *)
(***************************************************************************)
known_formats ==
    [chatml |-> "chatml_prompt_from_messages",
     falcon |-> "falcon_prompt_from_messages",
     florence |-> "florence_prompt_from_messages",
     fuyu |-> "fuyu_prompt_from_messages",
     gemma |-> "gemma_prompt_from_messages",
     glm4v |-> "glm4v_prompt_from_messages",
     llama2 |-> "llama2_prompt_from_messages",
     llama3 |-> "llama3_prompt_from_messages",
     mistral |-> "llama2_prompt_from_messages",
     phi15 |-> "phi15_prompt_from_messages",
     phi3 |-> "phi3_prompt_from_messages",
     phintern |-> "phintern_prompt_from_messages",
     pixtral |-> "pixtral_prompt_from_messages",
     vicuna |-> "vicuna_prompt_from_messages",
     vicuna0 |-> "vicuna0_prompt_from_messages"]

\* a call of the format function of that name
Invoke(f, messages) ==
    CASE f = "chatml_prompt_from_messages" -> chatml_prompt_from_messages(messages)
      [] f = "falcon_prompt_from_messages" -> falcon_prompt_from_messages(messages)
      [] f = "florence_prompt_from_messages" -> florence_prompt_from_messages(messages)
      [] f = "fuyu_prompt_from_messages" -> fuyu_prompt_from_messages(messages)
      [] f = "gemma_prompt_from_messages" -> gemma_prompt_from_messages(messages)
      [] f = "glm4v_prompt_from_messages" -> glm4v_prompt_from_messages(messages)
      [] f = "llama2_prompt_from_messages" -> llama2_prompt_from_messages(messages)
      [] f = "llama3_prompt_from_messages" -> llama3_prompt_from_messages(messages)
      [] f = "phi15_prompt_from_messages" -> phi15_prompt_from_messages(messages)
      [] f = "phi3_prompt_from_messages" -> phi3_prompt_from_messages(messages)
      [] f = "phintern_prompt_from_messages" -> phintern_prompt_from_messages(messages)
      [] f = "pixtral_prompt_from_messages" -> pixtral_prompt_from_messages(messages)
      [] f = "vicuna_prompt_from_messages" -> vicuna_prompt_from_messages(messages)
      [] f = "vicuna0_prompt_from_messages" -> vicuna0_prompt_from_messages(messages)

\* if format not in known_formats: raise ValueError(f"Unknown format: {format}")
IsKnown(format) == format \in DOMAIN known_formats

\* the format functions a call of prompt_from_messages invokes
Invoked(format) == IF IsKnown(format) THEN <<known_formats[format]>> ELSE <<>>

\* mutant: an unregistered name falls back on the vicuna function
prompt_from_messages_fallback(messages, format) ==
    IF ~IsKnown(format)
    THEN vicuna_prompt_from_messages(messages)
    ELSE Invoke(known_formats[format], messages)

prompt_from_messages(messages, format) ==
    IF ~IsKnown(format)
    THEN Raised("ValueError", <<"Unknown format: ", format>>, messages)
    ELSE Invoke(known_formats[format], messages)

\* the format names a caller passes: the registered ones and two others
FormatNames == DOMAIN known_formats \cup {"not-a-format", "ChatML"}

(***************************************************************************)
(* The message conversion of the qwen2_5_vl backend, which builds the      *)
(* messages of the processor's chat template without prompt_from_messages. *)
(***************************************************************************)
\* {'type': c.type, 'image': c.image_url.url} and {'type': c.type, 'text': c.text}
QwenPart(c) ==
    IF IsImage(c) THEN [type |-> c.type, text |-> <<>>, image |-> c.url]
    ELSE [type |-> c.type, text |-> Str(c.text), image |-> None]

\* ctext = "".join([c.text for c in m.content])
JoinTexts(content) == Concat([i \in 1..Len(content) |-> Str(content[i].text)])

\* str.join raises TypeError on an item that is None (the text of an image part)
JoinFails(content) == \E i \in 1..Len(content) : content[i].text = None

\* msg = { 'role': m.role, 'content': [...] }
QwenMessage(m) ==
    IF m.role = "user"
    THEN [role |-> m.role, content |-> [i \in 1..Len(m.content) |-> QwenPart(m.content[i])]]
    ELSE [role |-> m.role,
          content |-> <<[type |-> "text", text |-> JoinTexts(m.content), image |-> None]>>]

NotConverted == [status |-> "none", messages |-> <<>>]

\* for m in request.messages: ... messages.extend([msg])
qwen_messages(request_messages) ==
    IF \E i \in 1..Len(request_messages) :
           request_messages[i].role # "user" /\ JoinFails(request_messages[i].content)
    THEN [status |-> "TypeError", messages |-> <<>>]
    ELSE [status |-> "ok",
          messages |-> [i \in 1..Len(request_messages) |-> QwenMessage(request_messages[i])]]

(***************************************************************************)
(* VisionQnABase.repack_message_content.  A request as it arrives: the     *)
(* content of a message is a bare string or a list of Content.             *)
(***************************************************************************)
MaxCalls == 2

BareStr(s) == [kind |-> "str", str |-> s, list |-> <<>>]
ContentList(l) == [kind |-> "list", str |-> "", list |-> l]

RawTexts == {"", "hi"}
RawParts == {TextPart("hi"), ImagePart("u1")}
RawContents ==
    {BareStr(s) : s \in RawTexts} \cup {ContentList(l) : l \in SeqsUpTo(RawParts, MaxParts)}
RawMessages ==
    {[role |-> r, content |-> c, name |-> n] :
        r \in {"system", "user"}, c \in RawContents, n \in {None, "bob"}}

RawSize(m) == IF m.content.kind = "str" THEN 1 ELSE Len(m.content.list)

RawRequests ==
    UNION {ListsOf(RawMessages, RawSize, n, MaxTotalParts) : n \in 1..MaxMsgs}

\* mutant: the test is on the truth of the string, and "" stays a bare string
repack_one_truthy(m) ==
    IF m.content.kind = "str" /\ m.content.str # ""
    THEN [m EXCEPT !.content = ContentList(<<TextPart(m.content.str)>>)]
    ELSE m

\* if isinstance(m.content, str): m.content = [ Content(type='text', text=m.content) ]
repack_one(m) ==
    IF m.content.kind = "str"
    THEN [m EXCEPT !.content = ContentList(<<TextPart(m.content.str)>>)]
    ELSE m

\* for m in request.messages: ...
repack_message_content(request_messages) ==
    [i \in 1..Len(request_messages) |-> repack_one(request_messages[i])]

(***************************************************************************)
(* VisionQnABase.get_generation_params.  An Optional value is the empty    *)
(* set (None) or a singleton; temperature and top_p are in tenths.         *)
(***************************************************************************)
Temperatures == {{}, {-5}, {0}, {2}, {7}, {10}, {20}}
TopPs == {{}, {0}, {5}, {9}, {10}}
MaxTokens == {0, 1, 512}

GenRequests ==
    [max_tokens : MaxTokens, temperature : Temperatures, top_p : TopPs]

\* default_params = {} at the call of the backend
EmptyParams ==
    [top_k |-> {}, do_sample |-> {}, use_cache |-> {}, max_new_tokens |-> {},
     temperature |-> {}, top_p |-> {}]

\* dict.update: the keys the second dict holds replace those of the first
Update(params, more) ==
    [k \in DOMAIN params |-> IF more[k] # {} THEN more[k] ELSE params[k]]

\* params.get('top_p', 1.0)
TopPOr(params, default) ==
    IF params.top_p = {} THEN default ELSE CHOOSE x \in params.top_p : TRUE

\* mutant: a temperature of 0 samples too
SamplesByTemperature_ge(request) ==
    request.temperature # {} /\ \A t \in request.temperature : t >= 0

\* if request.temperature is not None: if request.temperature > 0:
SamplesByTemperature(request) ==
    request.temperature # {} /\ \A t \in request.temperature : t > 0

\* if request.top_p is not None and request.top_p != params.get('top_p', 1.0):
SamplesByTopP(request, params) ==
    request.top_p # {} /\ \A x \in request.top_p : x # TopPOr(params, 10)

get_generation_params(request, default_params) ==
    LET p0 == Update([EmptyParams EXCEPT !.do_sample = {FALSE}, !.use_cache = {TRUE}],
                     default_params)
        p1 == IF request.max_tokens # 0
              THEN [p0 EXCEPT !.max_new_tokens = {request.max_tokens}] ELSE p0
        p2 == IF SamplesByTemperature(request)
              THEN [p1 EXCEPT !.do_sample = {TRUE}, !.temperature = request.temperature]
              ELSE p1
        p3 == IF SamplesByTopP(request, p2)
              THEN [p2 EXCEPT !.do_sample = {TRUE}, !.top_p = request.top_p]
              ELSE p2
    IN  p3

(***************************************************************************)
(* threaded_streaming_generator and the loop of stream_chat_with_images    *)
(* that consumes it.  A text fragment is a sequence of pieces; the piece   *)
(* eos_token is the end-of-sequence marker.                                *)
(***************************************************************************)
MaxFrags == 3

eos_token == "<EOS>"

\* the fragments generate() hands to the streamer
Fragments ==
    { <<>>, <<"hello ">>, <<"world", eos_token>>, <<"ignored">>,
      <<eos_token, "ignored">> }

\* the text streamer.end() flushes out of its cache
FlushTexts == { <<>>, <<"ignored">> }

\* the exceptions generate() raises
Errors == {"OutOfMemoryError"}

\* the items of TextIteratorStreamer.text_queue: a text, or the stop signal
TextItem(text) == [stop |-> FALSE, text |-> text]
StopSignal == [stop |-> TRUE, text |-> <<>>]

\* str.find(eos_token): the index of the first occurrence, -1 if there is none
RECURSIVE find(_, _)
find(text, piece) ==
    IF text = <<>> THEN -1
    ELSE IF Head(text) = piece THEN 0
    ELSE LET rest == find(Tail(text), piece)
         IN  IF rest = -1 THEN -1 ELSE rest + 1

\* new_text[:end]
UpTo(text, end) == SubSeq(text, 1, end)

\* if end == -1: yield new_text  else: yield new_text[:end]
Yielded(new_text) ==
    IF find(new_text, eos_token) = -1 THEN new_text
    ELSE UpTo(new_text, find(new_text, eos_token))

\* mutant: the loop goes on after the marker
AfterYield_no_break(new_text) == "suspended"

\* where the loop stands once it has yielded: before the next fragment, or
\* before its break
AfterYield(new_text) ==
    IF find(new_text, eos_token) = -1 THEN "suspended" ELSE "suspended_eos"

(***************************************************************************)
(* State.                                                                  *)
(***************************************************************************)
VARIABLES
    given,      \* the message list as the caller built it
    messages,   \* the caller's message list object
    format,     \* the format name the caller passes
    result,     \* what the call returned or raised
    called,     \* the format functions invoked by the call
    pc,         \* "ready" before the call, "done" after it
    converted,  \* the messages the qwen2_5_vl backend built of the request
    arrived,    \* request.messages as the request arrived
    request,    \* request.messages, rewritten in place by the repack
    calls,      \* the number of calls of repack_message_content so far
    gen_request, \* the request given to get_generation_params
    params,     \* the dict it returned (no key before the call)
    worker,     \* where the thread running wrapper() stands
    failure,    \* the exception generate() raised (None: none)
    emitted,    \* the texts put on the streamer so far, in order
    text_queue, \* streamer.text_queue
    exq,        \* the queue of captured exceptions
    consumer,   \* where the consuming loop stands, or how it ended
    yielded,    \* the texts threaded_streaming_generator has yielded
    out,        \* the texts stream_chat_with_images has yielded
    thrown      \* the exception raised to the caller (None: none)

fmtVars == <<given, messages, format, result, called, pc, converted>>
repackVars == <<arrived, request, calls>>
paramVars == <<gen_request, params>>
streamVars == <<worker, failure, emitted, text_queue, exq, consumer, yielded, out, thrown>>
vars == <<fmtVars, repackVars, paramVars, streamVars>>

NoResult == [status |-> "none", images |-> <<>>, prompt |-> <<>>, messages |-> <<>>,
             error |-> <<>>]

\* the parts of the state a specification does not exercise
IdleFmt ==
    /\ given = <<>> /\ messages = <<>> /\ format = "" /\ result = NoResult
    /\ called = <<>> /\ pc = "idle" /\ converted = NotConverted
IdleRepack == arrived = <<>> /\ request = <<>> /\ calls = 0
IdleParams == gen_request = [max_tokens |-> 0, temperature |-> {}, top_p |-> {}]
              /\ params = EmptyParams
IdleStream ==
    /\ worker = "idle" /\ failure = None /\ emitted = <<>> /\ text_queue = <<>>
    /\ exq = <<>> /\ consumer = "idle" /\ yielded = <<>> /\ out = <<>> /\ thrown = None

(***************************************************************************)
(* Spec: a backend compiles the messages of a request, with one call of    *)
(* prompt_from_messages or, in qwen2_5_vl, with its own conversion.        *)
(***************************************************************************)
InitFmt ==
    /\ given \in MessageLists
    /\ messages = given
    /\ format \in FormatNames
    /\ result = NoResult
    /\ called = <<>>
    /\ pc = "ready"
    /\ converted = NotConverted

Init == InitFmt /\ IdleRepack /\ IdleParams /\ IdleStream

\* images, prompt = await prompt_from_messages(messages, format)
PromptFromMessages ==
    /\ pc = "ready"
    /\ result' = prompt_from_messages(messages, format)
    /\ messages' = result'.messages
    /\ called' = Invoked(format)
    /\ pc' = "done"
    /\ UNCHANGED <<given, format, converted, repackVars, paramVars, streamVars>>

\* the qwen2_5_vl backend converts request.messages itself
ConvertMessages ==
    /\ pc = "ready"
    /\ converted' = qwen_messages(messages)
    /\ pc' = "converted"
    /\ UNCHANGED <<given, messages, format, result, called, repackVars, paramVars,
                   streamVars>>

Next == PromptFromMessages \/ ConvertMessages

Spec == Init /\ [][Next]_vars

(***************************************************************************)
(* SpecRepack: a request is repacked, possibly more than once.             *)
(***************************************************************************)
InitRepack ==
    /\ arrived \in RawRequests
    /\ request = arrived
    /\ calls = 0
    /\ IdleFmt /\ IdleParams /\ IdleStream

\* request = self.repack_message_content(request)
RepackMessageContent ==
    /\ calls < MaxCalls
    /\ request' = repack_message_content(request)
    /\ calls' = calls + 1
    /\ UNCHANGED <<arrived, fmtVars, paramVars, streamVars>>

NextRepack == RepackMessageContent

SpecRepack == InitRepack /\ [][NextRepack]_vars

(***************************************************************************)
(* SpecParams: one call of get_generation_params.                          *)
(***************************************************************************)
InitParams ==
    /\ gen_request \in GenRequests
    /\ params = EmptyParams
    /\ IdleFmt /\ IdleRepack /\ IdleStream

\* params = self.get_generation_params(request, default_params={})
GetGenerationParams ==
    /\ params = EmptyParams
    /\ params' = get_generation_params(gen_request, EmptyParams)
    /\ UNCHANGED <<gen_request, fmtVars, repackVars, streamVars>>

NextParams == GetGenerationParams

SpecParams == InitParams /\ [][NextParams]_vars

(***************************************************************************)
(* SpecStream: one run of threaded_streaming_generator under the loop of   *)
(* stream_chat_with_images; t.start() has been called.  SpecStreamFair     *)
(* adds the scheduling of the worker thread and of the consuming loop.     *)
(***************************************************************************)
InitStream ==
    /\ worker = "generate"
    /\ failure = None
    /\ emitted = <<>>
    /\ text_queue = <<>>
    /\ exq = <<>>
    /\ consumer = "waiting"
    /\ yielded = <<>>
    /\ out = <<>>
    /\ thrown = None
    /\ IdleFmt /\ IdleRepack /\ IdleParams

others == <<fmtVars, repackVars, paramVars>>

\* mutant: the text queue holds one item and a put waits for room
WorkerEmit_bounded ==
    /\ worker = "generate"
    /\ Len(emitted) < MaxFrags
    /\ text_queue = <<>>
    /\ \E text \in Fragments :
          /\ text_queue' = Append(text_queue, TextItem(text))
          /\ emitted' = Append(emitted, text)
    /\ UNCHANGED <<worker, failure, exq, consumer, yielded, out, thrown, others>>

\* streamer.put(...) inside generate(): a text goes on the text queue
WorkerEmit ==
    /\ worker = "generate"
    /\ Len(emitted) < MaxFrags
    /\ \E text \in Fragments :
          /\ text_queue' = Append(text_queue, TextItem(text))
          /\ emitted' = Append(emitted, text)
    /\ UNCHANGED <<worker, failure, exq, consumer, yielded, out, thrown, others>>

\* generate() ends its loop and calls streamer.end(): the cached text first
WorkerFinish ==
    /\ worker = "generate"
    /\ \E text \in FlushTexts :
          /\ text_queue' = Append(text_queue, TextItem(text))
          /\ emitted' = Append(emitted, text)
    /\ worker' = "end"
    /\ UNCHANGED <<failure, exq, consumer, yielded, out, thrown, others>>

\* generate() raises; wrapper() is in its except clause
WorkerRaise ==
    /\ worker = "generate"
    /\ \E e \in Errors : failure' = e
    /\ worker' = "except"
    /\ UNCHANGED <<emitted, text_queue, exq, consumer, yielded, out, thrown, others>>

\* mutant: the exception is swallowed
WorkerCapture_swallow ==
    /\ worker = "except"
    /\ worker' = "handler"
    /\ UNCHANGED <<exq, failure, emitted, text_queue, consumer, yielded, out, thrown, others>>

\* exq.put(e)
WorkerCapture ==
    /\ worker = "except"
    /\ exq' = Append(exq, failure)
    /\ worker' = "handler"
    /\ UNCHANGED <<failure, emitted, text_queue, consumer, yielded, out, thrown, others>>

\* streamer.end() of the except clause: the cached text first
WorkerHandlerEnd ==
    /\ worker = "handler"
    /\ \E text \in FlushTexts :
          /\ text_queue' = Append(text_queue, TextItem(text))
          /\ emitted' = Append(emitted, text)
    /\ worker' = "end"
    /\ UNCHANGED <<failure, exq, consumer, yielded, out, thrown, others>>

\* streamer.end(), second half: the stop signal; the thread ends
WorkerStop ==
    /\ worker = "end"
    /\ text_queue' = Append(text_queue, StopSignal)
    /\ worker' = "done"
    /\ UNCHANGED <<failure, emitted, exq, consumer, yielded, out, thrown, others>>

\* mutant: the consumer takes the newest item of the queue
ConsumerNext_newest ==
    /\ consumer = "waiting"
    /\ text_queue # <<>>
    /\ text_queue' = Front(text_queue)
    /\ LET item == Last(text_queue)
       IN  IF item.stop
           THEN /\ consumer' = "checking"
                /\ UNCHANGED <<yielded, out>>
           ELSE IF item.text = <<>>
           THEN UNCHANGED <<consumer, yielded, out>>
           ELSE /\ yielded' = Append(yielded, item.text)
                /\ out' = Append(out, Yielded(item.text))
                /\ consumer' = AfterYield(item.text)
    /\ UNCHANGED <<worker, failure, emitted, exq, thrown, others>>

\* for text in streamer: if text: yield text -- and the body of the loop of
\* stream_chat_with_images, which yields the text or its part before the marker
ConsumerNext ==
    /\ consumer = "waiting"
    /\ text_queue # <<>>
    /\ text_queue' = Tail(text_queue)
    /\ LET item == Head(text_queue)
       IN  IF item.stop
           THEN /\ consumer' = "checking"
                /\ UNCHANGED <<yielded, out>>
           ELSE IF item.text = <<>>
           THEN UNCHANGED <<consumer, yielded, out>>
           ELSE /\ yielded' = Append(yielded, item.text)
                /\ out' = Append(out, Yielded(item.text))
                /\ consumer' = AfterYield(item.text)
    /\ UNCHANGED <<worker, failure, emitted, exq, thrown, others>>

\* the caller asks for the next text
ConsumerResume ==
    /\ consumer = "suspended"
    /\ consumer' = "waiting"
    /\ UNCHANGED <<worker, failure, emitted, text_queue, exq, yielded, out, thrown, others>>

\* break: the loop is left and the generator is closed
ConsumerBreak ==
    /\ consumer = "suspended_eos"
    /\ consumer' = "eos"
    /\ UNCHANGED <<worker, failure, emitted, text_queue, exq, yielded, out, thrown, others>>

\* the caller stops iterating: the suspended generators are closed
ConsumerAbandon ==
    /\ consumer \in {"suspended", "suspended_eos"}
    /\ consumer' = "abandoned"
    /\ UNCHANGED <<worker, failure, emitted, text_queue, exq, yielded, out, thrown, others>>

\* mutant: a silent queue ends the iteration like the stop signal
ConsumerTimeout_as_end ==
    /\ consumer = "waiting"
    /\ text_queue = <<>>
    /\ consumer' = "checking"
    /\ UNCHANGED <<thrown, worker, failure, emitted, text_queue, exq, yielded, out, others>>

\* text_queue.get(timeout=600) raises queue.Empty out of the generator
ConsumerTimeout ==
    /\ consumer = "waiting"
    /\ text_queue = <<>>
    /\ consumer' = "timeout"
    /\ thrown' = "queue.Empty"
    /\ UNCHANGED <<worker, failure, emitted, text_queue, exq, yielded, out, others>>

\* if not exq.empty(): raise exq.get_nowait()
ConsumerCheck ==
    /\ consumer = "checking"
    /\ IF exq # <<>>
       THEN /\ thrown' = Head(exq)
            /\ exq' = Tail(exq)
            /\ consumer' = "error"
       ELSE /\ consumer' = "clean"
            /\ UNCHANGED <<thrown, exq>>
    /\ UNCHANGED <<worker, failure, emitted, text_queue, yielded, out, others>>

WorkerStep ==
    \/ WorkerEmit
    \/ WorkerFinish
    \/ WorkerRaise
    \/ WorkerCapture
    \/ WorkerHandlerEnd
    \/ WorkerStop

ConsumerStep ==
    \/ ConsumerNext
    \/ ConsumerResume
    \/ ConsumerBreak
    \/ ConsumerAbandon
    \/ ConsumerTimeout
    \/ ConsumerCheck

NextStream == WorkerStep \/ ConsumerStep

SpecStream == InitStream /\ [][NextStream]_vars

\* the thread is scheduled; the consuming loop, whenever it can move, moves
SpecStreamFair == SpecStream /\ WF_vars(WorkerStep) /\ WF_vars(ConsumerStep)

(***************************************************************************)
(* Properties of the dispatch and of the format functions.                 *)
(***************************************************************************)
RegisteredNames ==
    {"chatml", "falcon", "florence", "fuyu", "gemma", "glm4v", "llama2", "llama3",
     "mistral", "phi15", "phi3", "phintern", "pixtral", "vicuna", "vicuna0"}

Occurs(s, x) == \E i \in 1..Len(s) : s[i] = x

EndsWith(s, suffix) ==
    /\ Len(suffix) <= Len(s)
    /\ SubSeq(s, Len(s) - Len(suffix) + 1, Len(s)) = suffix

\* C1: a call with a format name that is no key of the registry ends in an
\* error whose message names that format name, has invoked no format function
\* and has left the caller's messages as they were; a call with a registered
\* name does not end in that error.
C1_UnknownFormatFails ==
    pc = "done" =>
        /\ format \notin RegisteredNames =>
              /\ result.status = "ValueError"
              /\ Occurs(result.error, format)
              /\ called = <<>>
              /\ messages = given
        /\ format \in RegisteredNames =>
              /\ result.status # "ValueError"
              /\ Len(called) = 1

C1_Witness ==
    /\ pc = "done"
    /\ format = "not-a-format"
    /\ result.status = "ValueError"
    /\ result.error = <<"Unknown format: ", "not-a-format">>

\* C2: after a call on a message list whose last message has role assistant,
\* the caller's message list has the same messages in the same order as
\* before the call.
C2_CallerListUntouched ==
    (pc = "done" /\ HasTrailingAssistant(given)) => messages = given

\* the call popped the trailing assistant message off the caller's list
C2_Witness ==
    /\ pc = "done"
    /\ format = "chatml"
    /\ given = ExamplePartial
    /\ result.status = "ok"
    /\ messages = <<ExamplePartial[1]>>

\* the formats whose function extracts a trailing assistant message
ExtractingNames ==
    {"chatml", "falcon", "gemma", "glm4v", "llama3", "phi15", "phi3", "phintern",
     "pixtral", "vicuna", "vicuna0"}

\* the messages that remain after trailing-assistant extraction
Remaining(f, ms) ==
    IF f \in ExtractingNames /\ ms # <<>> /\ ms[Len(ms)].role = "assistant"
    THEN SubSeq(ms, 1, Len(ms) - 1) ELSE ms

\* the image_url parts of a message list, in the order of the messages and of
\* their content parts
RECURSIVE ImageRefs(_)
ImageRefs(ms) ==
    IF ms = <<>> THEN <<>>
    ELSE LET c == ms[1].content
             here == [i \in 1..Len(SelectSeq(c, IsImage)) |-> SelectSeq(c, IsImage)[i].url]
         IN  here \o ImageRefs(Tail(ms))

\* C3: the images returned are the images of the image_url parts of all the
\* messages that remain after trailing-assistant extraction, whatever their
\* role, as many and in the order of the walk.
C3_ImagesOfAllRemaining ==
    (pc = "done" /\ result.status = "ok") =>
        LET refs == ImageRefs(Remaining(format, given))
        IN  result.images = [i \in 1..Len(refs) |-> [image |-> refs[i]]]

\* a user message with one image reference compiles to no image at all
C3_Witness ==
    /\ pc = "done"
    /\ format = "pixtral"
    /\ given = <<Message("user", <<TextPart("hi"), ImagePart("u1")>>)>>
    /\ result.status = "ok"
    /\ result.images = <<>>

\* the generation-opening tag of each family ("" where the function has none)
GenerationTag(f) ==
    CASE f = "chatml" -> "<|im_start|>assistant\n"
      [] f = "falcon" -> "Falcon:"
      [] f = "gemma" -> "<start_of_turn>model\n"
      [] f = "glm4v" -> "<|assistant|>\n"
      [] f = "llama3" -> "<|start_header_id|>assistant<|end_header_id|>\n\n"
      [] f = "phi15" -> "Answer:"
      [] f = "phi3" -> "<|assistant|>\n"
      [] f = "phintern" -> "<s><|assistant|>\n"
      [] f = "vicuna" -> "ASSISTANT:"
      [] f = "vicuna0" -> "### Assistant:"
      [] OTHER -> ""

Tokens(t) == IF t = "" THEN <<>> ELSE <<t>>

\* the last message is an assistant message whose content is the one text T,
\* and T is the text of no other message
EndsWithAssistantText(ms, T) ==
    /\ ms # <<>>
    /\ ms[Len(ms)].role = "assistant"
    /\ ms[Len(ms)].content = <<TextPart(T)>>
    /\ \A i \in 1..(Len(ms) - 1) : \A j \in 1..Len(ms[i].content) :
           ms[i].content[j].text # T

ContinuesWith(f, prompt, T) ==
    /\ EndsWith(prompt, Tokens(GenerationTag(f)) \o <<T>>)
    /\ Count(prompt, T) = 1

PlainSystemUser(ms) ==
    \A i \in 1..Len(ms) :
        /\ ms[i].role \in {"system", "user"}
        /\ Len(SelectSeq(ms[i].content, IsText)) <= 1
        /\ ms[i].role = "system" => Len(SelectSeq(ms[i].content, IsText)) = 1

TheText(m) == SelectSeq(m.content, IsText)[1].text

RECURSIVE ChatmlExpected(_)
ChatmlExpected(ms) ==
    IF ms = <<>> THEN <<>>
    ELSE LET m == ms[1]
             n == Len(SelectSeq(m.content, IsImage))
         IN  (IF m.role = "system"
              THEN <<"<|im_start|>system\n", TheText(m), "<|im_end|>">>
              ELSE <<"<|im_start|>user\n">> \o [i \in 1..n |-> "<image>\n"]
                     \o (IF SelectSeq(m.content, IsText) = <<>> THEN <<>> ELSE <<TheText(m)>>)
                     \o <<"<|im_end|>">>)
             \o ChatmlExpected(Tail(ms))

\* C9: for format chatml and system and user messages the prompt is the
\* concatenation, in message order, of one system block or one user block per
\* message (the image tags before the text), followed by the assistant opening
\* tag as its last token; the example of the specification compiles to one
\* image and to the prompt the specification gives.
C9_ChatmlPrompt ==
    (pc = "done" /\ format = "chatml") =>
        /\ PlainSystemUser(given) =>
              /\ result.status = "ok"
              /\ result.prompt = ChatmlExpected(given) \o <<"<|im_start|>assistant\n">>
        /\ given = ExampleChatml =>
              /\ result.images = <<[image |-> "data:image/png;..."]>>
              /\ result.prompt =
                   <<"<|im_start|>system\n", "Be terse.", "<|im_end|>",
                     "<|im_start|>user\n", "<image>\n", "What is this?", "<|im_end|>",
                     "<|im_start|>assistant\n">>

C9_Witness ==
    /\ pc = "done"
    /\ format = "chatml"
    /\ given = ExampleChatml
    /\ result.status = "ok"
    /\ Len(result.images) = 1

(***************************************************************************)
(* Properties of repack_message_content and get_generation_params.         *)
(***************************************************************************)
\* what the claim says a repacked message is
RepackedFrom(before, after) ==
    /\ after.role = before.role
    /\ after.name = before.name
    /\ IF before.content.kind = "str"
       THEN /\ after.content.kind = "list"
            /\ after.content.list =
                 <<[type |-> "text", text |-> before.content.str, url |-> None]>>
       ELSE after.content = before.content

\* C7: after repack_message_content every message that arrived with a bare
\* string s holds the one-element content [Text(s)], every other message and
\* every other field is as it arrived, the messages are in the same order, and
\* a further application changes nothing.
C7_RepackIdempotent ==
    /\ [](calls >= 1 =>
            /\ Len(request) = Len(arrived)
            /\ \A i \in 1..Len(arrived) : RepackedFrom(arrived[i], request[i]))
    /\ [][calls >= 1 => request' = request]_vars

\* a request with a bare-string message has been repacked twice
C7_Witness ==
    /\ calls = 2
    /\ Len(arrived) = 2
    /\ arrived[1].content = BareStr("hi")
    /\ arrived[2].content.kind = "list"
    /\ request[1].content = ContentList(<<TextPart("hi")>>)

TheValue(opt) == CHOOSE x \in opt : TRUE

\* C8: sampling is enabled with the request's temperature when temperature is
\* set and > 0, and with the request's top_p when top_p is set and differs
\* from the default 1.0; otherwise the parameters are greedy (do_sample
\* false), in particular for temperature 0 with top_p unset or the default.
C8_SamplingPolicy ==
    params # EmptyParams =>
        LET t == gen_request.temperature
            p == gen_request.top_p
            hot == t # {} /\ TheValue(t) > 0
            nucleus == p # {} /\ TheValue(p) # 10
        IN  /\ hot => (params.do_sample = {TRUE} /\ params.temperature = t)
            /\ nucleus => (params.do_sample = {TRUE} /\ params.top_p = p)
            /\ (~hot /\ ~nucleus) =>
                  (params.do_sample = {FALSE} /\ params.temperature = {}
                     /\ params.top_p = {})
            /\ ~hot => params.temperature = {}
            /\ ~nucleus => params.top_p = {}

\* temperature 0 and the default top_p have produced greedy parameters
C8_Witness ==
    /\ params # EmptyParams
    /\ gen_request.temperature = {0}
    /\ gen_request.top_p = {10}
    /\ params.do_sample = {FALSE}

(***************************************************************************)
(* Properties of the streaming.                                            *)
(***************************************************************************)
NonEmpty(texts) == SelectSeq(texts, LAMBDA t : t # <<>>)

HasMarker(text) == \E i \in 1..Len(text) : text[i] = "<EOS>"

\* the part of a text before its first marker
BeforeMarker(text) ==
    LET first == CHOOSE i \in 1..Len(text) :
                     text[i] = "<EOS>" /\ \A j \in 1..(i - 1) : text[j] # "<EOS>"
    IN  [j \in 1..(first - 1) |-> text[j]]

\* what the consumer is to yield of a sequence of fragments: each one up to the
\* first that holds the marker, of that one the part before the marker, and
\* nothing after it
RECURSIVE UntilMarker(_)
UntilMarker(texts) ==
    IF texts = <<>> THEN <<>>
    ELSE IF HasMarker(Head(texts)) THEN <<BeforeMarker(Head(texts))>>
    ELSE <<Head(texts)>> \o UntilMarker(Tail(texts))

IsPrefix(s, t) == Len(s) <= Len(t) /\ SubSeq(t, 1, Len(s)) = s

StoppedAtMarker == consumer \in {"suspended_eos", "eos"}

\* C5: the consumer yields the fragments up to the first one that holds the
\* end-of-sequence marker, of that one only the part before the marker, and
\* nothing afterwards whatever the producer emits later; a producer emitting
\* "hello ", "world<EOS>", "ignored" makes it yield exactly "hello ", "world".
C5_TruncatesAtEos ==
    /\ IsPrefix(out, UntilMarker(NonEmpty(emitted)))
    /\ StoppedAtMarker =>
          /\ out = UntilMarker(NonEmpty(emitted))
          /\ HasMarker(yielded[Len(yielded)])
    /\ (StoppedAtMarker /\ IsPrefix(<< <<"hello ">>, <<"world", "<EOS>">> >>, emitted)) =>
          out = << <<"hello ">>, <<"world">> >>

\* the producer of the example has emitted all three fragments and the
\* consumer has left its loop at the marker
C5_Witness ==
    /\ consumer = "eos"
    /\ Len(emitted) >= 3
    /\ SubSeq(emitted, 1, 3) = << <<"hello ">>, <<"world", "<EOS>">>, <<"ignored">> >>
    /\ out = << <<"hello ">>, <<"world">> >>

\* C6: when the worker has raised, the consumer raises the captured error only
\* after it has yielded every non-empty fragment the worker emitted, and it
\* never ends cleanly.
C6_DrainThenRaise ==
    /\ consumer = "error" =>
          /\ failure # None
          /\ thrown = failure
          /\ yielded = NonEmpty(emitted)
          /\ text_queue = <<>>
    /\ consumer = "clean" => failure = None
    /\ thrown \in Errors => consumer = "error"

\* the worker raised after a fragment, which the consumer yielded before the
\* error reached it
C6_Witness ==
    /\ consumer = "error"
    /\ thrown = "OutOfMemoryError"
    /\ Len(emitted) >= 1
    /\ emitted[1] = <<"hello ">>
    /\ yielded[1] = <<"hello ">>

Ended == consumer \in {"clean", "error", "timeout"}
ClosedByCaller == consumer \in {"eos", "abandoned"}

\* C10: under fair scheduling every run that its caller does not close ends,
\* and it ends in one of three ways: cleanly, after the worker has put the
\* stop signal without having raised; with the worker's captured error; or
\* with the timeout error of a silent queue, which is never a clean end.
C10_EndsOneOfThreeWays ==
    /\ <>(Ended \/ ClosedByCaller)
    /\ [](consumer = "clean" =>
            (worker = "done" /\ failure = None /\ thrown = None /\ text_queue = <<>>))
    /\ [](consumer = "error" => (worker = "done" /\ thrown = failure /\ failure # None))
    /\ [](consumer = "timeout" => thrown = "queue.Empty")
    /\ [][(consumer # "timeout" /\ text_queue = <<>> /\ consumer = "waiting"
             /\ consumer' # "waiting") => consumer' = "timeout"]_vars
    /\ [][Ended => consumer' = consumer]_vars

\* the queue stayed silent and the run ended with the timeout error
C10_Witness ==
    /\ consumer = "timeout"
    /\ thrown = "queue.Empty"
    /\ worker = "generate"
    /\ Len(yielded) = 1

(***************************************************************************)
(* Properties of the hand-off between the worker and the consuming loop.   *)
(***************************************************************************)
WorkerRunning == worker # "done"

\* C11: the consumer never blocks the producer: in every state of the
\* consumer (waiting, suspended, stopped at the marker, abandoned, ended) the
\* worker's next step is enabled, a step of the consumer changes nothing of
\* the worker, and under fair scheduling of the thread the worker reaches
\* its end.
C11_ProducerNeverBlocked ==
    /\ []((worker = "generate" /\ Len(emitted) < MaxFrags) => ENABLED WorkerEmit)
    /\ [](worker = "generate" => ENABLED WorkerFinish)
    /\ [](WorkerRunning => ENABLED WorkerStep)
    /\ [][consumer' # consumer => (worker' = worker /\ emitted' = emitted
                                     /\ failure' = failure)]_vars
    /\ [][worker = "done" => worker' = "done"]_vars
    /\ <>(worker = "done")

\* the consumer left its loop at the marker of the second fragment; the
\* worker went on to emit the third and ran to its end, its last items
\* staying on the queue
C11_Witness ==
    /\ consumer = "eos"
    /\ worker = "done"
    /\ Len(emitted) >= 3
    /\ SubSeq(emitted, 1, 3) = << <<"hello ">>, <<"world", "<EOS>">>, <<"ignored">> >>
    /\ Len(yielded) = 2
    /\ text_queue # <<>>

(***************************************************************************)
(* Properties of the per-message walk.                                     *)
(***************************************************************************)
\* the texts of the Text parts of a content list, in order
ContentTexts(content) ==
    LET texts == SelectSeq(content, IsText)
    IN  [i \in 1..Len(texts) |-> texts[i].text]

\* the texts of the Text parts of the messages of one role, in order
RECURSIVE RoleTexts(_, _)
RoleTexts(ms, role) ==
    IF ms = <<>> THEN <<>>
    ELSE (IF ms[1].role = role THEN ContentTexts(ms[1].content) ELSE <<>>)
             \o RoleTexts(Tail(ms), role)

WithoutRole(ms, role) == SelectSeq(ms, LAMBDA m : m.role # role)

\* a text is in the prompt as it was given or stripped of outer white space
InPrompt(prompt, t) == Occurs(prompt, t) \/ Occurs(prompt, Strip(t))

\* C12: for every registered format, when the message list without its
\* system messages compiles, the list with them compiles too, and the text of
\* every Text part of every system message is in the returned prompt.
C12_SystemTextInPrompt ==
    (/\ pc = "done"
     /\ format \in RegisteredNames
     /\ prompt_from_messages(WithoutRole(given, "system"), format).status = "ok") =>
        /\ result.status = "ok"
        /\ \A i \in 1..Len(RoleTexts(given, "system")) :
               InPrompt(result.prompt, RoleTexts(given, "system")[i])

\* pixtral fails on a system message ahead of a user message
C12_Witness ==
    /\ pc = "done"
    /\ format = "pixtral"
    /\ given = <<Message("system", <<TextPart("hi")>>), Message("user", <<TextPart("hi")>>)>>
    /\ result.status = "TypeError"
    /\ result.error = NoneAugError

\* the text of each user message that has a Text part (of several Text parts
\* the last, which every family renders), in the order of the messages
RECURSIVE UserTexts(_)
UserTexts(ms) ==
    IF ms = <<>> THEN <<>>
    ELSE (IF ms[1].role = "user" /\ SelectSeq(ms[1].content, IsText) # <<>>
          THEN <<ContentLastText(ms[1].content)>> ELSE <<>>)
             \o UserTexts(Tail(ms))

\* every token stripped of its outer white space
Stripped(s) == [i \in 1..Len(s) |-> Strip(s[i])]

\* s is t with some of its tokens left out
RECURSIVE IsSubsequence(_, _)
IsSubsequence(s, t) ==
    IF s = <<>> THEN TRUE
    ELSE IF t = <<>> THEN FALSE
    ELSE IF Head(s) = Head(t) THEN IsSubsequence(Tail(s), Tail(t))
    ELSE IsSubsequence(s, Tail(t))

\* C13: for every registered format the texts of the user messages that
\* remain after trailing-assistant extraction, the last message included,
\* all appear in the compiled prompt, in the order of their messages.
C13_UserTextsInOrder ==
    (pc = "done" /\ format \in RegisteredNames /\ result.status = "ok") =>
        IsSubsequence(Stripped(UserTexts(Remaining(format, given))),
                      Stripped(result.prompt))

\* pixtral compiles a single user message to the bare start token
C13_Witness ==
    /\ pc = "done"
    /\ format = "pixtral"
    /\ given = <<Message("user", <<TextPart("hi")>>)>>
    /\ result.status = "ok"
    /\ result.prompt = <<"<s>">>

\* the image tag of each format function ("" where it has none)
ImageTag(f) ==
    CASE f \in {"chatml", "falcon", "gemma", "llama2", "mistral", "phi3", "phintern",
                "vicuna"} -> "<image>\n"
      [] f \in {"llama3", "phi15"} -> "<image>"
      [] f = "vicuna0" -> "<image_placeholder>\n"
      [] f = "glm4v" -> "<|begin_of_image|><|endoftext|><|end_of_image|>"
      [] f = "pixtral" -> "[IMG]"
      [] OTHER -> ""

\* C14: for every format with a non-empty image tag the compiled prompt holds
\* as many image tags as images are returned, one per image reference of the
\* walked messages, also when a message has an image reference and no Text
\* part or several Text parts.
C14_OneTagPerImage ==
    (pc = "done" /\ format \in RegisteredNames /\ ImageTag(format) # ""
       /\ result.status = "ok") =>
        /\ Count(result.prompt, ImageTag(format)) = Len(result.images)
        /\ Count(result.prompt, ImageTag(format)) = Len(ImageRefs(Remaining(format, given)))

\* llama3 returns the image of a message without a Text part and no image tag
C14_Witness ==
    /\ pc = "done"
    /\ format = "llama3"
    /\ given = <<Message("user", <<ImagePart("u1")>>)>>
    /\ result.status = "ok"
    /\ Len(result.images) = 1
    /\ Count(result.prompt, "<image>") = 0

\* s occurs in t as a run of adjacent tokens
IsInfix(s, t) ==
    \E k \in 0..(Len(t) - Len(s)) : SubSeq(t, k + 1, k + Len(s)) = s

SeveralTexts(m) == m.role # "user" /\ Len(SelectSeq(m.content, IsText)) >= 2

\* C15: a system or assistant message with several Text parts makes one
\* block, its texts joined with no separator: in the prompt of every format
\* function the texts of such a message are adjacent, and the conversion of
\* the backend gives every non-user message the one part that holds the
\* joined text.
C15_OneBlockPerMessage ==
    /\ (pc = "done" /\ format \in RegisteredNames /\ result.status = "ok") =>
          \A i \in 1..Len(Remaining(format, given)) :
              SeveralTexts(given[i]) =>
                  IsInfix(Stripped(ContentTexts(given[i].content)),
                          Stripped(result.prompt))
    /\ (pc = "converted" /\ converted.status = "ok") =>
          /\ Len(converted.messages) = Len(given)
          /\ \A i \in 1..Len(given) :
                 given[i].role # "user" =>
                     converted.messages[i].content =
                         <<[type |-> "text",
                            text |-> ContentTexts(given[i].content),
                            image |-> "None"]>>

\* chatml renders a system message of two Text parts as two system blocks
C15_Witness ==
    /\ pc = "done"
    /\ format = "chatml"
    /\ given = <<Message("system", <<TextPart("hi"), TextPart(" pad ")>>)>>
    /\ result.prompt =
         <<"<|im_start|>system\n", "hi", "<|im_end|>",
           "<|im_start|>system\n", " pad ", "<|im_end|>", "<|im_start|>assistant\n">>

(***************************************************************************)
(* Properties of the trailing-assistant extraction.                        *)
(***************************************************************************)
\* C16: for every extracting format and every list whose last message is an
\* assistant message, whatever its content parts, the call does not fail and
\* the prompt ends with the generation-opening tag followed by all the texts
\* of that message.
C16_WholeTrailingText ==
    (pc = "done" /\ format \in ExtractingNames /\ HasTrailingAssistant(given)) =>
        /\ result.status = "ok"
        /\ EndsWith(result.prompt,
                    Tokens(GenerationTag(format))
                        \o ContentTexts(given[Len(given)].content))

\* the extraction fails on a trailing assistant message whose first part is
\* an image reference
C16_Witness ==
    /\ pc = "done"
    /\ format = "chatml"
    /\ given = <<Message("user", <<TextPart("hi")>>),
                 Message("assistant", <<ImagePart("u1"), TextPart("hi")>>)>>
    /\ result.status = "TypeError"
    /\ messages = given

TwoTrailingAssistants(ms) ==
    /\ Len(ms) >= 2
    /\ ms[Len(ms)].role = "assistant"
    /\ ms[Len(ms) - 1].role = "assistant"

\* the continuation marker: the generation-opening tag and the seed
Marker(f, ms) == Tokens(GenerationTag(f)) \o <<ms[Len(ms)].content[1].text>>

\* the same list with a user message in the place of its last message
FollowedByUser(ms) ==
    SubSeq(ms, 1, Len(ms) - 1) \o <<Message("user", <<TextPart("hi")>>)>>

QueueTexts(q) ==
    LET items == SelectSeq(q, LAMBDA item : ~item.stop)
    IN  [i \in 1..Len(items) |-> items[i].text]

\* C18: the generator relays the fragments in strict FIFO order: at every
\* moment what it has yielded, followed by the non-empty texts still on the
\* queue, is the sequence of the non-empty fragments the producer has emitted
\* (none duplicated, reordered or skipped); each yield is the text at the head
\* of the queue; and when the iteration has ended by the stop signal the
\* yielded sequence is that whole sequence and its concatenation the
\* producer's full output.
C18_StrictFifo ==
    /\ [](yielded \o NonEmpty(QueueTexts(text_queue)) = NonEmpty(emitted))
    /\ [][yielded' # yielded =>
            /\ text_queue # <<>>
            /\ yielded' = Append(yielded, text_queue[1].text)
            /\ text_queue' = Tail(text_queue)]_vars
    /\ [](consumer \in {"checking", "clean", "error"} =>
            /\ yielded = NonEmpty(emitted)
            /\ Concat(yielded) = Concat(emitted))

\* a run that ended cleanly after relaying two different fragments, an empty
\* one emitted among them
C18_Witness ==
    /\ consumer = "clean"
    /\ Len(yielded) = 2
    /\ yielded[1] # yielded[2]
    /\ Len(emitted) > 2
    /\ yielded = NonEmpty(emitted)

====
